---------------------------- MODULE Spec2Model ----------------------------
(***************************************************************************)
(* Model of the sparkline renderer of src/src/lib/svg.ts                   *)
(* (generateSparklineSVG and its helpers, second definition in the file,   *)
(* lines 72-275).                                                          *)
(*                                                                         *)
(* Numbers.  A JavaScript number is modelled as an exact rational <<n, d>> *)
(* in lowest terms with d > 0; the rounding of IEEE doubles is not         *)
(* modelled.  Text.  A JavaScript string whose characters matter (a        *)
(* formatted number, a colour) is a sequence of one-character strings;     *)
(* identifiers are TLA+ strings.  The SVG text is modelled by the element  *)
(* tree it serialises: the empty string '' is the empty sequence, a        *)
(* document is a one-element sequence holding the <svg> root.              *)
(***************************************************************************)
EXTENDS Integers, Sequences, FiniteSets, TLC

VARIABLES
    prices,     \* argument `prices`: sequence of <<timestamp, value>> pairs
    options,    \* argument `options`: a SparklineOptions record
    random,     \* the values Math.random()...substr(2, 9) will yield, in call order
    page        \* the SparklineResult of every call made so far, oldest first

vars == <<prices, options, random, page>>

---------------------------------------------------------------------------
(* Bounds of the model.                                                    *)

MaxLen == 4             \* longest sample sequence
MaxRenders == 2         \* calls of generateSparklineSVG on the same input
MaxFractionDigits == 6  \* digits kept of a non-terminating decimal expansion

---------------------------------------------------------------------------
(* Rational arithmetic.                                                    *)

Abs(i) == IF i < 0 THEN -i ELSE i

RECURSIVE GCD(_, _)
GCD(a, b) == IF b = 0 THEN a ELSE GCD(b, a % b)

Rat(n, d) ==
    LET s == IF d < 0 THEN -1 ELSE 1
        g == GCD(Abs(n), Abs(d))
    IN  <<(s * n) \div g, (s * d) \div g>>

Int2R(i) == <<i, 1>>
RAdd(a, b) == Rat(a[1] * b[2] + b[1] * a[2], a[2] * b[2])
RSub(a, b) == Rat(a[1] * b[2] - b[1] * a[2], a[2] * b[2])
RMul(a, b) == Rat(a[1] * b[1], a[2] * b[2])
RDiv(a, b) == Rat(a[1] * b[2], a[2] * b[1])
RLe(a, b) == a[1] * b[2] <= b[1] * a[2]
RLt(a, b) == a[1] * b[2] < b[1] * a[2]
RGe(a, b) == RLe(b, a)
RMax(a, b) == IF RLe(a, b) THEN b ELSE a      \* Math.max of two numbers
RMin(a, b) == IF RLe(a, b) THEN a ELSE b      \* Math.min of two numbers
RCeil(a) == Int2R(-((-a[1]) \div a[2]))        \* Math.ceil

Zero == Int2R(0)
One == Int2R(1)
Two == Int2R(2)
Three == Int2R(3)
Hundred == Int2R(100)

RECURSIVE SeqMin(_)
SeqMin(s) == IF Len(s) = 1 THEN s[1] ELSE RMin(s[1], SeqMin(Tail(s)))
RECURSIVE SeqMax(_)
SeqMax(s) == IF Len(s) = 1 THEN s[1] ELSE RMax(s[1], SeqMax(Tail(s)))

---------------------------------------------------------------------------
(* Number formatting.                                                      *)

DigitChars == <<"0", "1", "2", "3", "4", "5", "6", "7", "8", "9">>
Digit(k) == DigitChars[k + 1]

RECURSIVE NatToChars(_)
NatToChars(n) ==
    IF n < 10 THEN <<Digit(n)>> ELSE NatToChars(n \div 10) \o <<Digit(n % 10)>>

Sign(r) == IF r[1] < 0 THEN <<"-">> ELSE <<>>

\* Number.prototype.toFixed(2): the nearest multiple of 1/100, a tie going to
\* the larger magnitude, written with exactly two fraction digits.
ToFixed2(r) ==
    LET m == (Abs(r[1]) * 200 + r[2]) \div (2 * r[2])
    IN  Sign(r) \o NatToChars(m \div 100) \o <<".">>
            \o <<Digit((m % 100) \div 10), Digit(m % 10)>>

\* The fraction digits of rem/d: long division, stopping when the remainder is 0.
RECURSIVE FractionChars(_, _, _)
FractionChars(rem, d, left) ==
    IF rem = 0 \/ left = 0 THEN <<>>
    ELSE <<Digit((rem * 10) \div d)>> \o FractionChars((rem * 10) % d, d, left - 1)

\* A number interpolated into a template literal, `${x}` (Number::toString):
\* no fraction part for an integer, otherwise only the digits that are needed.
NumberToString(r) ==
    LET a == Abs(r[1])
        frac == FractionChars(a % r[2], r[2], MaxFractionDigits)
    IN  Sign(r) \o NatToChars(a \div r[2])
            \o (IF frac = <<>> THEN <<>> ELSE <<".">> \o frac)

---------------------------------------------------------------------------
(* Option values.  An optional property is Undefined when the caller left  *)
(* it out; customColor may also be Null.                                   *)

Undefined == [kind |-> "undefined"]
Null == [kind |-> "null"]
Val(v) == [kind |-> "value", v |-> v]

\* A destructuring default `name = dflt`: applies to undefined only.
Default(o, dflt) == IF o = Undefined THEN dflt ELSE o

---------------------------------------------------------------------------
(* Strings of the source, as character sequences.                          *)

DefaultUpColor == <<"#", "0", "0", "C", "8", "5", "3">>
DefaultDownColor == <<"#", "F", "F", "5", "A", "5", "A">>
DefaultBackgroundColor == <<"#", "0", "0", "0", "0", "0", "0">>
FallbackRgb == <<"0", ",", " ", "0", ",", " ", "0">>

\* The destructuring of `options` with its defaults (lines 146-162).
Resolve(o) ==
    [ width           |-> o.width,
      height          |-> o.height,
      fill            |-> o.fill,
      strokeWidth     |-> Default(o.strokeWidth, Val(Two)).v,
      padding         |-> Default(o.padding, Val(Int2R(4))).v,
      upColor         |-> Default(o.upColor, Val(DefaultUpColor)).v,
      downColor       |-> Default(o.downColor, Val(DefaultDownColor)).v,
      customColor     |-> Default(o.customColor, Null),
      smooth          |-> Default(o.smooth, Val(FALSE)).v,
      smoothTension   |-> Default(o.smoothTension, Val(Rat(1, 2))).v,
      showKnob        |-> Default(o.showKnob, Val(FALSE)).v,
      knobSize        |-> Default(o.knobSize, Val(Int2R(8))).v,
      backgroundColor |-> Default(o.backgroundColor, Val(DefaultBackgroundColor)).v,
      fadeEdges       |-> Default(o.fadeEdges, Val(FALSE)).v,
      fadeAmount      |-> Default(o.fadeAmount, Val(Int2R(30))).v ]

---------------------------------------------------------------------------
(* Coordinate mapping (lines 168-190).  `c` is a resolved configuration.   *)

values(ps) == [i \in 1..Len(ps) |-> ps[i][2]]

\* `max - min || 1`
range(vs) ==
    LET r == RSub(SeqMax(vs), SeqMin(vs))
    IN  IF r = Zero THEN One ELSE r

knobRadius(c) == RDiv(c.knobSize, Two)

\* Mutant of basePadding: the marker's stroke is not counted.
basePaddingNoStroke(c) ==
    IF c.showKnob THEN RMax(c.padding, knobRadius(c)) ELSE c.padding

basePadding(c) ==
    IF c.showKnob
    THEN RMax(c.padding, RAdd(knobRadius(c), RDiv(c.strokeWidth, Two)))
    ELSE c.padding

\* Mutant of baseChartHeight: the plot height is taken from the raw padding.
baseChartHeightRaw(c) == RSub(c.height, RMul(c.padding, Two))

baseChartHeight(c) == RSub(c.height, RMul(basePadding(c), Two))

\* Mutant of smoothPadding: the term is added whether or not smooth is set.
smoothPaddingAlways(c) ==
    RCeil(RMul(RMul(baseChartHeight(c), c.smoothTension), Rat(15, 100)))

smoothPadding(c) ==
    IF c.smooth
    THEN RCeil(RMul(RMul(baseChartHeight(c), c.smoothTension), Rat(15, 100)))
    ELSE Zero

effectivePadding(c) == RAdd(basePadding(c), smoothPadding(c))

\* Mutant of chartWidth: the width is inset by basePadding only.
chartWidthBase(c) == RSub(c.width, RMul(basePadding(c), Two))

chartWidth(c) == RSub(c.width, RMul(effectivePadding(c), Two))
chartHeight(c) == RSub(c.height, RMul(effectivePadding(c), Two))

\* Mutant of PointAt: x divides by the number of samples, `index / values.length`.
PointAtByLength(vs, index, c) ==
    [ x |-> RAdd(effectivePadding(c),
                 RMul(RDiv(Int2R(index), Int2R(Len(vs))), chartWidth(c))),
      y |-> RSub(RAdd(effectivePadding(c), chartHeight(c)),
                 RMul(RDiv(RSub(vs[index + 1], SeqMin(vs)), range(vs)),
                      chartHeight(c))) ]

\* Mutant of PointAt: y grows with the value, the axis is not inverted.
PointAtNotInverted(vs, index, c) ==
    [ x |-> RAdd(effectivePadding(c),
                 RMul(RDiv(Int2R(index), Int2R(Len(vs) - 1)), chartWidth(c))),
      y |-> RAdd(effectivePadding(c),
                 RMul(RDiv(RSub(vs[index + 1], SeqMin(vs)), range(vs)),
                      chartHeight(c))) ]

\* Mutant of PointAt: y is not offset by the padding.
PointAtNoOffset(vs, index, c) ==
    [ x |-> RAdd(effectivePadding(c),
                 RMul(RDiv(Int2R(index), Int2R(Len(vs) - 1)), chartWidth(c))),
      y |-> RSub(chartHeight(c),
                 RMul(RDiv(RSub(vs[index + 1], SeqMin(vs)), range(vs)),
                      chartHeight(c))) ]

\* The point of the sample at 0-based position `index` among `values`.
PointAt(vs, index, c) ==
    [ x |-> RAdd(effectivePadding(c),
                 RMul(RDiv(Int2R(index), Int2R(Len(vs) - 1)), chartWidth(c))),
      y |-> RSub(RAdd(effectivePadding(c), chartHeight(c)),
                 RMul(RDiv(RSub(vs[index + 1], SeqMin(vs)), range(vs)),
                      chartHeight(c))) ]

points(vs, c) == [i \in 1..Len(vs) |-> PointAt(vs, i - 1, c)]

\* Mutant of isUp: strict comparison, `last > first`.
isUpStrict(vs) == RLt(vs[1], vs[Len(vs)])

\* `values[values.length - 1] >= values[0]` (line 192)
isUp(vs) == RGe(vs[Len(vs)], vs[1])

\* Mutant of Truthy: `customColor ?? ...`, only null and undefined fall through.
NotNullish(s) == s.kind = "value"

\* `customColor || (isUp ? upColor : downColor)`: null, undefined and '' are falsy.
Truthy(s) == s.kind = "value" /\ s.v # <<>>

strokeColor(c, up) ==
    IF Truthy(c.customColor) THEN c.customColor.v
    ELSE IF up THEN c.upColor ELSE c.downColor

---------------------------------------------------------------------------
(* Path building (lines 100-129).  A path is its sequence of drawing       *)
(* instructions; an instruction is a command letter and its numbers, each  *)
(* number as the text that was written.                                    *)

Instr(cmd, args) == [cmd |-> cmd, args |-> args]
XY(p) == <<ToFixed2(p.x), ToFixed2(p.y)>>

\* Mutant of straightPath: the move-to is tested with `i === 1`.
straightPathSecondMove(pts) ==
    [i \in 1..Len(pts) |-> Instr(IF i = 2 THEN "M" ELSE "L", XY(pts[i]))]

straightPath(pts) ==
    [i \in 1..Len(pts) |-> Instr(IF i = 1 THEN "M" ELSE "L", XY(pts[i]))]

\* Mutant of ControlCoord: the tangent is divided by 2.
ControlCoordHalf(p, s, a, b, tension) ==
    RAdd(p, RMul(Int2R(s), RDiv(RMul(RSub(a, b), tension), Two)))

\* p + s * (a - b) * tension / 3, for one coordinate
ControlCoord(p, s, a, b, tension) ==
    RAdd(p, RMul(Int2R(s), RDiv(RMul(RSub(a, b), tension), Three)))

\* Mutant of Cp1: the tangent starts at the segment's own first point.
Cp1FromSelf(pts, i, tension) ==
    LET p1 == pts[i + 1]
        p2 == pts[i + 2]
    IN  [ x |-> ControlCoord(p1.x, 1, p2.x, p1.x, tension),
          y |-> ControlCoord(p1.y, 1, p2.y, p1.y, tension) ]

\* The control points of the segment from points[i + 1] (0-based i).
Cp1(pts, i, tension) ==
    LET p0 == pts[(IF i - 1 > 0 THEN i - 1 ELSE 0) + 1]
        p1 == pts[i + 1]
        p2 == pts[i + 2]
    IN  [ x |-> ControlCoord(p1.x, 1, p2.x, p0.x, tension),
          y |-> ControlCoord(p1.y, 1, p2.y, p0.y, tension) ]

Cp2(pts, i, tension) ==
    LET p1 == pts[i + 1]
        p2 == pts[i + 2]
        p3 == pts[(IF i + 2 < Len(pts) - 1 THEN i + 2 ELSE Len(pts) - 1) + 1]
    IN  [ x |-> ControlCoord(p2.x, -1, p3.x, p1.x, tension),
          y |-> ControlCoord(p2.y, -1, p3.y, p1.y, tension) ]

\* Mutant of catmullRomToBezier: two points are not treated apart.
catmullRomNoFallback(pts, tension) ==
    IF Len(pts) < 2 THEN <<>>
    ELSE <<Instr("M", XY(pts[1]))>> \o
         [k \in 1..(Len(pts) - 1) |->
            Instr("C", XY(Cp1(pts, k - 1, tension))
                       \o XY(Cp2(pts, k - 1, tension))
                       \o XY(pts[k + 1]))]

catmullRomToBezier(pts, tension) ==
    IF Len(pts) < 2 THEN <<>>
    ELSE IF Len(pts) = 2
    THEN <<Instr("M", XY(pts[1])), Instr("L", XY(pts[2]))>>
    ELSE <<Instr("M", XY(pts[1]))>> \o
         [k \in 1..(Len(pts) - 1) |->
            Instr("C", XY(Cp1(pts, k - 1, tension))
                       \o XY(Cp2(pts, k - 1, tension))
                       \o XY(pts[k + 1]))]

---------------------------------------------------------------------------
(* Colour parsing (lines 131-140).                                         *)

HexDigits ==
    <<"0", "1", "2", "3", "4", "5", "6", "7", "8", "9", "a", "b", "c", "d", "e", "f">>
UpperHexDigits ==
    <<"0", "1", "2", "3", "4", "5", "6", "7", "8", "9", "A", "B", "C", "D", "E", "F">>

IsHexChar(ch) == \E k \in 1..16 : HexDigits[k] = ch \/ UpperHexDigits[k] = ch
HexValue(ch) == (CHOOSE k \in 1..16 : HexDigits[k] = ch \/ UpperHexDigits[k] = ch) - 1

\* Mutant of hexToRgb: the pattern is matched without the `i` flag.
hexToRgbLowerOnly(hex) ==
    LET body == IF Len(hex) > 0 /\ hex[1] = "#" THEN Tail(hex) ELSE hex
    IN  IF Len(body) = 6 /\ \A k \in 1..6 : \E h \in 1..16 : HexDigits[h] = body[k]
        THEN Val([ r |-> 16 * HexValue(body[1]) + HexValue(body[2]),
                   g |-> 16 * HexValue(body[3]) + HexValue(body[4]),
                   b |-> 16 * HexValue(body[5]) + HexValue(body[6]) ])
        ELSE Null

\* /^#?([a-f\d]{2})([a-f\d]{2})([a-f\d]{2})$/i, then parseInt(.., 16) of each group
hexToRgb(hex) ==
    LET body == IF Len(hex) > 0 /\ hex[1] = "#" THEN Tail(hex) ELSE hex
    IN  IF Len(body) = 6 /\ \A k \in 1..6 : IsHexChar(body[k])
        THEN Val([ r |-> 16 * HexValue(body[1]) + HexValue(body[2]),
                   g |-> 16 * HexValue(body[3]) + HexValue(body[4]),
                   b |-> 16 * HexValue(body[5]) + HexValue(body[6]) ])
        ELSE Null

rgbStr(colour) ==
    LET rgb == hexToRgb(colour)
    IN  IF rgb # Null
        THEN NatToChars(rgb.v.r) \o <<",", " ">> \o NatToChars(rgb.v.g)
                \o <<",", " ">> \o NatToChars(rgb.v.b)
        ELSE FallbackRgb

---------------------------------------------------------------------------
(* Document assembly (lines 197-272).  An attribute value is a paint       *)
(* (a keyword, a colour text or a url(#id) reference) or a number text.    *)

Keyword(k) == [paint |-> "keyword", name |-> k]
Color(chars) == [paint |-> "color", text |-> chars]
Url(id) == [paint |-> "url", id |-> id]
NoAttr == [paint |-> "absent"]

\* Mutant of MakeId: every identifier is written with one and the same prefix.
MakeIdOnePrefix(prefix, rnd) == "id-" \o rnd

\* `prefix-${Math.random().toString(36).substr(2, 9)}`
MakeId(prefix, rnd) == prefix \o rnd

\* Number of Math.random() calls of one full render (lines 197, 214-216).
RandomCalls == 4

\* Stops of the two fade gradients: <<offset, stop-opacity>> (lines 225-236, 239-250).
FadeLeftStops ==
    << <<"0%", "0">>, <<"19%", "0.05">>, <<"34%", "0.15">>, <<"47%", "0.26">>,
       <<"56.5%", "0.36">>, <<"65%", "0.48">>, <<"73%", "0.62">>, <<"80.2%", "0.75">>,
       <<"86.1%", "0.84">>, <<"91%", "0.91">>, <<"95.2%", "0.96">>, <<"100%", "1">> >>
FadeRightStops ==
    << <<"0%", "1">>, <<"4.8%", "0.96">>, <<"9%", "0.91">>, <<"13.9%", "0.84">>,
       <<"19.8%", "0.75">>, <<"27%", "0.62">>, <<"35%", "0.48">>, <<"43.5%", "0.36">>,
       <<"53%", "0.26">>, <<"66%", "0.15">>, <<"81%", "0.05">>, <<"100%", "0">> >>

fadePercent(c) == RDiv(c.fadeAmount, Hundred)
fadeLeft(c) == c.fadeEdges
\* Mutant of fadeRight: the marker does not suppress the right fade.
fadeRightAlways(c) == c.fadeEdges
fadeRight(c) == c.fadeEdges /\ ~c.showKnob

\* Mutant of fillPath: the bottom is taken from the raw padding.
fillPathRawPadding(line, pts, c) ==
    LET bottom == NumberToString(RSub(c.height, c.padding))
    IN  line \o
        << Instr("L", <<ToFixed2(pts[Len(pts)].x), bottom>>),
           Instr("L", <<ToFixed2(pts[1].x), bottom>>),
           Instr("Z", <<>>) >>

\* `linePath L lastX bottom L firstX bottom Z` (line 206); the bottom is
\* interpolated as it is, without toFixed.
fillPath(line, pts, c) ==
    LET bottom == NumberToString(RSub(c.height, effectivePadding(c)))
    IN  line \o
        << Instr("L", <<ToFixed2(pts[Len(pts)].x), bottom>>),
           Instr("L", <<ToFixed2(pts[1].x), bottom>>),
           Instr("Z", <<>>) >>

\* Mutant of knobElement: the radius attribute carries the diameter.
knobElementDiameter(pts, c, colour) ==
    [ tag         |-> "circle",
      cx          |-> ToFixed2(pts[Len(pts)].x),
      cy          |-> ToFixed2(pts[Len(pts)].y),
      r           |-> NumberToString(c.knobSize),
      stroke      |-> Color(colour),
      strokeWidth |-> NumberToString(c.strokeWidth),
      fill        |-> Color(c.backgroundColor) ]

\* The circle of the terminal marker (line 210).
knobElement(pts, c, colour) ==
    [ tag         |-> "circle",
      cx          |-> ToFixed2(pts[Len(pts)].x),
      cy          |-> ToFixed2(pts[Len(pts)].y),
      r           |-> NumberToString(knobRadius(c)),
      stroke      |-> Color(colour),
      strokeWidth |-> NumberToString(c.strokeWidth),
      fill        |-> Color(c.backgroundColor) ]

\* The numbers interpolated into the mask's rectangles (lines 253-255).
FadeWidth(c) == RMul(c.width, fadePercent(c))
OpaqueX(c) == IF fadeLeft(c) THEN FadeWidth(c) ELSE Zero
OpaqueWidth(c) ==
    RSub(RSub(c.width, IF fadeLeft(c) THEN FadeWidth(c) ELSE Zero),
         IF fadeRight(c) THEN FadeWidth(c) ELSE Zero)
FadeRightX(c) == RMul(c.width, RSub(One, fadePercent(c)))

\* The rectangles of the mask, in document order (lines 253-255).  The left
\* rectangle carries no x attribute.
MaskRects(c, fadeLeftId, fadeRightId) ==
    (IF fadeLeft(c)
     THEN << [ tag |-> "rect", x |-> <<>>,
               width |-> NumberToString(FadeWidth(c)),
               height |-> NumberToString(c.height),
               fill |-> Url(fadeLeftId) ] >>
     ELSE <<>>)
    \o << [ tag |-> "rect",
            x |-> NumberToString(OpaqueX(c)),
            width |-> NumberToString(OpaqueWidth(c)),
            height |-> NumberToString(c.height),
            fill |-> Keyword("white") ] >>
    \o (IF fadeRight(c)
        THEN << [ tag |-> "rect",
                  x |-> NumberToString(FadeRightX(c)),
                  width |-> NumberToString(FadeWidth(c)),
                  height |-> NumberToString(c.height),
                  fill |-> Url(fadeRightId) ] >>
        ELSE <<>>)

\* Mutant of fadeMaskDef: the definitions are written whether or not fadeEdges.
fadeMaskDefAlways(c, maskId, fadeLeftId, fadeRightId) ==
    << [ tag |-> "linearGradient", id |-> fadeLeftId, stops |-> FadeLeftStops ],
       [ tag |-> "linearGradient", id |-> fadeRightId, stops |-> FadeRightStops ],
       [ tag |-> "mask", id |-> maskId,
         rects |-> MaskRects(c, fadeLeftId, fadeRightId) ] >>

\* `fadeMaskDef` (lines 223-256): two gradients and the mask, or nothing.
fadeMaskDef(c, maskId, fadeLeftId, fadeRightId) ==
    IF c.fadeEdges
    THEN << [ tag |-> "linearGradient", id |-> fadeLeftId, stops |-> FadeLeftStops ],
            [ tag |-> "linearGradient", id |-> fadeRightId, stops |-> FadeRightStops ],
            [ tag |-> "mask", id |-> maskId,
              rects |-> MaskRects(c, fadeLeftId, fadeRightId) ] >>
    ELSE <<>>

\* The gradient of the fill (lines 262-265).
GradientDef(gradientId, rgb3) ==
    [ tag |-> "linearGradient", id |-> gradientId,
      stops |-> << [ offset |-> "0%", color |-> rgb3, opacity |-> "0.3" ],
                   [ offset |-> "100%", color |-> rgb3, opacity |-> "0" ] >> ]

\* Mutant of Group: the fill names the gradient without url(#...).
GroupBareId(c, line, outline, colour, gradientId, maskId) ==
    [ tag  |-> "g",
      mask |-> IF c.fadeEdges THEN Url(maskId) ELSE NoAttr,
      children |->
        (IF c.fill
         THEN << [ tag |-> "path", d |-> outline, fill |-> Keyword(gradientId),
                   stroke |-> NoAttr ] >>
         ELSE <<>>)
        \o << [ tag |-> "path", d |-> line, fill |-> Keyword("none"),
                stroke |-> Color(colour),
                strokeWidth |-> NumberToString(c.strokeWidth) ] >> ]

\* The group of the fill and stroke paths (lines 267-270).
Group(c, line, outline, colour, gradientId, maskId) ==
    [ tag  |-> "g",
      mask |-> IF c.fadeEdges THEN Url(maskId) ELSE NoAttr,
      children |->
        (IF c.fill
         THEN << [ tag |-> "path", d |-> outline, fill |-> Url(gradientId),
                   stroke |-> NoAttr ] >>
         ELSE <<>>)
        \o << [ tag |-> "path", d |-> line, fill |-> Keyword("none"),
                stroke |-> Color(colour),
                strokeWidth |-> NumberToString(c.strokeWidth) ] >> ]

\* Mutant of Document: the marker is written inside the masked group.
DocumentKnobInGroup(c, defs, group, knob) ==
    [ tag      |-> "svg",
      width    |-> NumberToString(c.width),
      height   |-> NumberToString(c.height),
      defs     |-> defs,
      children |-> << [group EXCEPT !.children = @ \o knob] >> ]

\* The template of lines 260-272: the root, its <defs>, the group and, after
\* the group, the marker.
Document(c, defs, group, knob) ==
    [ tag      |-> "svg",
      width    |-> NumberToString(c.width),
      height   |-> NumberToString(c.height),
      defs     |-> defs,
      children |-> <<group>> \o knob ]

\* Mutant of EmptyResult: the sentinel reports a falling trend.
EmptyResultDown == [svg |-> <<>>, isUp |-> FALSE]

\* `{ svg: '', isUp: true }` (line 165)
EmptyResult == [svg |-> <<>>, isUp |-> TRUE]

\* generateSparklineSVG(prices, options), with `rnd` the texts the calls of
\* Math.random() yield, in order.  Returns the SparklineResult.
generateSparklineSVG(ps, o, rnd) ==
    IF Len(ps) < 2 THEN EmptyResult
    ELSE
    LET c           == Resolve(o)
        vs          == values(ps)
        pts         == points(vs, c)
        up          == isUp(vs)
        colour      == strokeColor(c, up)
        line        == IF c.smooth THEN catmullRomToBezier(pts, c.smoothTension)
                       ELSE straightPath(pts)
        gradientId  == MakeId("gradient-", rnd[1])
        outline     == IF c.fill THEN fillPath(line, pts, c) ELSE <<>>
        knob        == IF c.showKnob THEN <<knobElement(pts, c, colour)>> ELSE <<>>
        maskId      == MakeId("fade-mask-", rnd[2])
        fadeLeftId  == MakeId("fade-left-", rnd[3])
        fadeRightId == MakeId("fade-right-", rnd[4])
        defs        == <<GradientDef(gradientId, rgbStr(colour))>>
                       \o fadeMaskDef(c, maskId, fadeLeftId, fadeRightId)
        group       == Group(c, line, outline, colour, gradientId, maskId)
    IN  [svg |-> <<Document(c, defs, group, knob)>>, isUp |-> up]

\* Math.random() calls made by one call of generateSparklineSVG.
RandomUsed(ps) == IF Len(ps) < 2 THEN 0 ELSE RandomCalls

---------------------------------------------------------------------------
(* The inputs.                                                             *)

PriceValues == {Int2R(100), Int2R(120), Int2R(150)}

\* Sample i of a series is stamped i minutes after the first.
Timestamp(i) == Int2R(60000 * (i - 1))

SeriesOf(vals) == [i \in 1..Len(vals) |-> <<Timestamp(i), vals[i]>>]

\* Every series of at most n samples with values in V.
SeriesUpTo(V, n) == UNION { {SeriesOf(vals) : vals \in [1..k -> V]} : k \in 0..n }

\* A stream of distinct identifier suffixes, enough for MaxRenders calls.
DistinctStream ==
    [i \in 1..(RandomCalls * MaxRenders) |-> "k" \o Digit(i \div 10) \o Digit(i % 10)]

Flag == {Undefined, Val(TRUE)}

\* Canvas 100 x 50; fill, smooth, showKnob and fadeEdges vary, the rest is left out.
OptionsGeneral ==
    [ width: {Int2R(100)}, height: {Int2R(50)}, fill: BOOLEAN,
      strokeWidth: {Undefined}, padding: {Undefined},
      upColor: {Undefined}, downColor: {Undefined}, customColor: {Undefined},
      smooth: Flag, smoothTension: {Undefined},
      showKnob: Flag, knobSize: {Undefined},
      backgroundColor: {Undefined},
      fadeEdges: Flag, fadeAmount: {Undefined} ]

\* Two fixed series, for the specifications that vary the configuration.
RisingSeries == SeriesOf(<<Int2R(100), Int2R(150)>>)
FallingSeries == SeriesOf(<<Int2R(150), Int2R(100), Int2R(120)>>)
FlatSeries == SeriesOf(<<Int2R(120), Int2R(150), Int2R(120)>>)
ShortSeries == SeriesOf(<<Int2R(100)>>)

\* Padding: canvas heights, paddings, stroke widths, marker sizes, tensions.
PaddingKnobSizes == {Int2R(4), Int2R(6), Int2R(7), Int2R(24)}
OptionsPadding ==
    [ width: {Int2R(100)},
      height: {Int2R(10), Int2R(29), Int2R(49), Int2R(60)},
      fill: {FALSE},
      strokeWidth: {Undefined, Val(One), Val(Three)},
      padding: {Undefined, Val(Zero), Val(Int2R(12))},
      upColor: {Undefined}, downColor: {Undefined}, customColor: {Undefined},
      smooth: Flag,
      smoothTension: {Undefined, Val(Rat(1, 10)), Val(One)},
      showKnob: Flag,
      knobSize: {Undefined} \cup {Val(k) : k \in PaddingKnobSizes},
      backgroundColor: {Undefined},
      fadeEdges: {Undefined}, fadeAmount: {Undefined} ]

\* Colours: a 6-digit hex, a 3-digit hex, a colour name, the empty string.
Blue == <<"#", "3", "B", "8", "2", "F", "6">>
Green == <<"#", "2", "2", "c", "5", "5", "e">>
ShortHex == <<"#", "a", "b", "c">>
Named == <<"r", "e", "d">>
OptionsColour ==
    [ width: {Int2R(100)}, height: {Int2R(50)}, fill: BOOLEAN,
      strokeWidth: {Undefined}, padding: {Undefined},
      upColor: {Undefined, Val(Green)},
      downColor: {Undefined, Val(Named)},
      customColor: {Undefined, Null, Val(<<>>), Val(Blue), Val(ShortHex), Val(Named)},
      smooth: {Undefined}, smoothTension: {Undefined},
      showKnob: Flag, knobSize: {Undefined},
      backgroundColor: {Undefined},
      fadeEdges: {Undefined}, fadeAmount: {Undefined} ]

\* Edge fade: canvas widths and fade percentages.
OptionsFade ==
    [ width: {Int2R(100), Int2R(250)}, height: {Int2R(50)}, fill: BOOLEAN,
      strokeWidth: {Undefined}, padding: {Undefined},
      upColor: {Undefined}, downColor: {Undefined}, customColor: {Undefined},
      smooth: {Undefined}, smoothTension: {Undefined},
      showKnob: Flag, knobSize: {Undefined},
      backgroundColor: {Undefined},
      fadeEdges: Flag,
      fadeAmount: {Undefined, Val(Zero), Val(Rat(15, 2)), Val(Int2R(50)),
                   Val(Int2R(60)), Val(Hundred)} ]

\* Coordinate mapping: the same values stamped evenly and unevenly, two
\* canvases, one of them too small for the larger padding.
UnevenTimestamp(i) == Int2R(1000 * i * i * i)
UnevenSeriesOf(vals) == [i \in 1..Len(vals) |-> <<UnevenTimestamp(i), vals[i]>>]
UnevenSeriesUpTo(V, n) ==
    UNION { {UnevenSeriesOf(vals) : vals \in [1..k -> V]} : k \in 0..n }
OptionsMapping ==
    [ width: {Int2R(100), Int2R(37)}, height: {Int2R(50), Int2R(7)},
      fill: {FALSE},
      strokeWidth: {Undefined}, padding: {Undefined},
      upColor: {Undefined}, downColor: {Undefined}, customColor: {Undefined},
      smooth: Flag, smoothTension: {Undefined},
      showKnob: Flag, knobSize: {Undefined},
      backgroundColor: {Undefined},
      fadeEdges: {Undefined}, fadeAmount: {Undefined} ]

\* Smoothing: two canvas heights and three tensions, padding left out.
OptionsSmooth ==
    [ width: {Int2R(100)}, height: {Int2R(50), Hundred},
      fill: {FALSE},
      strokeWidth: {Undefined}, padding: {Undefined},
      upColor: {Undefined}, downColor: {Undefined}, customColor: {Undefined},
      smooth: {Val(TRUE)},
      smoothTension: {Undefined, Val(Rat(1, 10)), Val(One)},
      showKnob: Flag, knobSize: {Undefined},
      backgroundColor: {Undefined},
      fadeEdges: {Undefined}, fadeAmount: {Undefined} ]

\* Terminal marker: sizes, stroke widths, colours of the ring and of its hole.
White == <<"#", "f", "f", "f", "f", "f", "f">>
OptionsMarker ==
    [ width: {Int2R(100)}, height: {Int2R(50)}, fill: {FALSE},
      strokeWidth: {Undefined, Val(Three)}, padding: {Undefined},
      upColor: {Undefined}, downColor: {Undefined},
      customColor: {Undefined, Val(Blue)},
      smooth: Flag, smoothTension: {Undefined},
      showKnob: Flag, knobSize: {Undefined, Val(Int2R(7)), Val(Int2R(24))},
      backgroundColor: {Undefined, Val(White)},
      fadeEdges: Flag, fadeAmount: {Undefined} ]

\* Whole document: every switch of the template, with and without one colour
\* for both directions, on rising, falling, level and constant series.
ConstantSeries == SeriesOf(<<Int2R(120), Int2R(120), Int2R(120)>>)
OptionsDocument ==
    [ width: {Int2R(100)}, height: {Int2R(50)}, fill: BOOLEAN,
      strokeWidth: {Undefined}, padding: {Undefined},
      upColor: {Undefined, Val(Green)}, downColor: {Undefined, Val(Green)},
      customColor: {Undefined},
      smooth: Flag, smoothTension: {Undefined},
      showKnob: Flag, knobSize: {Undefined},
      backgroundColor: {Undefined},
      fadeEdges: Flag, fadeAmount: {Undefined} ]

\* Identifiers: what Math.random().toString(36).substr(2, 9) can yield; the
\* empty text is what a draw of 0 gives.
RandomSuffixes == {"", "4fzzzxjyl"}
AllStreams == [1..(RandomCalls * MaxRenders) -> RandomSuffixes]
OptionsIds ==
    [ width: {Int2R(100)}, height: {Int2R(50)}, fill: {TRUE},
      strokeWidth: {Undefined}, padding: {Undefined},
      upColor: {Undefined}, downColor: {Undefined}, customColor: {Undefined},
      smooth: {Undefined}, smoothTension: {Undefined},
      showKnob: Flag, knobSize: {Undefined},
      backgroundColor: {Undefined},
      fadeEdges: Flag, fadeAmount: {Undefined} ]

---------------------------------------------------------------------------
(* The state machine: the caller holds an input and calls the renderer on  *)
(* it; every result is kept, as the page that embeds the documents does.   *)

InitWith(P, O, R) ==
    /\ prices \in P
    /\ options \in O
    /\ random \in R
    /\ page = <<>>

\* One call of generateSparklineSVG(prices, options).
Render ==
    /\ Len(page) < MaxRenders
    /\ Len(random) >= RandomUsed(prices)
    /\ page' = Append(page, generateSparklineSVG(prices, options, random))
    /\ random' = SubSeq(random, RandomUsed(prices) + 1, Len(random))
    /\ UNCHANGED <<prices, options>>

Next == Render

Init == InitWith(SeriesUpTo(PriceValues, MaxLen), OptionsGeneral, {DistinctStream})

Spec == Init /\ [][Next]_vars

InitPadding ==
    InitWith({RisingSeries, FallingSeries}, OptionsPadding, {DistinctStream})
SpecPadding == InitPadding /\ [][Next]_vars

InitColour ==
    InitWith({RisingSeries, FallingSeries, FlatSeries, ShortSeries}, OptionsColour,
             {DistinctStream})
SpecColour == InitColour /\ [][Next]_vars

InitFade == InitWith({RisingSeries, FallingSeries}, OptionsFade, {DistinctStream})
SpecFade == InitFade /\ [][Next]_vars

InitMapping ==
    InitWith(SeriesUpTo(PriceValues, MaxLen) \cup UnevenSeriesUpTo(PriceValues, MaxLen),
             OptionsMapping, {DistinctStream})
SpecMapping == InitMapping /\ [][Next]_vars

InitSmooth == InitWith(SeriesUpTo(PriceValues, MaxLen), OptionsSmooth, {DistinctStream})
SpecSmooth == InitSmooth /\ [][Next]_vars

InitMarker ==
    InitWith({RisingSeries, FallingSeries, FlatSeries}, OptionsMarker, {DistinctStream})
SpecMarker == InitMarker /\ [][Next]_vars

InitDocument ==
    InitWith({RisingSeries, FallingSeries, FlatSeries, ConstantSeries}, OptionsDocument,
             {DistinctStream})
SpecDocument == InitDocument /\ [][Next]_vars

InitIds == InitWith({FallingSeries, ShortSeries}, OptionsIds, AllStreams)
SpecIds == InitIds /\ [][Next]_vars

---------------------------------------------------------------------------
(* Vocabulary of the properties.                                           *)

Cfg == Resolve(options)
Rendered == Len(page) > 0
Samples == values(prices)
Docs == {page[k].svg[1] : k \in {j \in 1..Len(page) : page[j].svg # <<>>}}
Flat == \A i \in 1..Len(prices) : prices[i][2] = prices[1][2]
StreamLength == RandomCalls * MaxRenders

\* /^-?\d+\.\d{2}$/
IsDigit(ch) == \E k \in 1..10 : DigitChars[k] = ch
IsFixed2(t) ==
    LET b == IF Len(t) > 0 /\ t[1] = "-" THEN Tail(t) ELSE t
    IN  /\ Len(b) >= 4
        /\ b[Len(b) - 2] = "."
        /\ \A k \in 1..Len(b) : k # Len(b) - 2 => IsDigit(b[k])

\* The parts of a document.
GroupOf(doc) == doc.children[1]
PathsOf(doc) == {GroupOf(doc).children[k] : k \in 1..Len(GroupOf(doc).children)}
StrokePathOf(doc) == GroupOf(doc).children[Len(GroupOf(doc).children)]
CirclesOf(doc) ==
    {doc.children[k] : k \in {j \in 1..Len(doc.children) : doc.children[j].tag = "circle"}}
PathNumbers(d) == UNION { {d[k].args[a] : a \in 1..Len(d[k].args)} : k \in 1..Len(d) }

\* Every coordinate text written into the drawing instructions of a document.
Coordinates(doc) ==
    UNION {PathNumbers(p.d) : p \in PathsOf(doc)}
        \cup UNION { {ci.cx, ci.cy} : ci \in CirclesOf(doc) }

\* The y text of the end point of every instruction of a path.
EndYs(d) == {d[k].args[Len(d[k].args)] : k \in {j \in 1..Len(d) : d[j].args # <<>>}}

\* The x and y texts of the end point of one instruction.
EndX(instr) == instr.args[Len(instr.args) - 1]
EndY(instr) == instr.args[Len(instr.args)]

\* The number a decimal attribute text denotes.
DigitValue(ch) == (CHOOSE k \in 1..10 : DigitChars[k] = ch) - 1
RECURSIVE DigitsToNat(_)
DigitsToNat(t) ==
    IF t = <<>> THEN 0
    ELSE 10 * DigitsToNat(SubSeq(t, 1, Len(t) - 1)) + DigitValue(t[Len(t)])
RECURSIVE Pow10(_)
Pow10(k) == IF k = 0 THEN 1 ELSE 10 * Pow10(k - 1)
ParseNumber(t) ==
    LET b    == IF Len(t) > 0 /\ t[1] = "-" THEN Tail(t) ELSE t
        dots == {k \in 1..Len(b) : b[k] = "."}
        dot  == IF dots = {} THEN Len(b) + 1 ELSE CHOOSE k \in dots : TRUE
        whole == DigitsToNat(SubSeq(b, 1, dot - 1))
        frac == SubSeq(b, dot + 1, Len(b))
        mag  == Rat(whole * Pow10(Len(frac)) + DigitsToNat(frac), Pow10(Len(frac)))
    IN  IF b = t THEN mag ELSE RSub(Zero, mag)

\* A document with its identifiers taken out: a definition loses its id and
\* a url(#id) reference names the positions, in <defs>, of what it refers to.
Targets(doc, id) == {k \in 1..Len(doc.defs) : doc.defs[k].id = id}
AnonPaint(doc, p) ==
    IF p.paint = "url" THEN [paint |-> "url", targets |-> Targets(doc, p.id)] ELSE p
AnonRect(doc, r) == [r EXCEPT !.fill = AnonPaint(doc, r.fill)]
AnonDef(doc, d) ==
    IF d.tag = "mask"
    THEN [tag |-> "mask", rects |-> [k \in 1..Len(d.rects) |-> AnonRect(doc, d.rects[k])]]
    ELSE [tag |-> d.tag, stops |-> d.stops]
AnonShape(doc, el) ==
    [el EXCEPT !.fill = AnonPaint(doc, el.fill), !.stroke = AnonPaint(doc, el.stroke)]
AnonChild(doc, el) ==
    IF el.tag = "g"
    THEN [ tag |-> "g", mask |-> AnonPaint(doc, el.mask),
           children |-> [k \in 1..Len(el.children) |-> AnonShape(doc, el.children[k])] ]
    ELSE AnonShape(doc, el)
Anonymous(svg) ==
    [ i \in 1..Len(svg) |->
        [ svg[i] EXCEPT
            !.defs = [k \in 1..Len(svg[i].defs) |-> AnonDef(svg[i], svg[i].defs[k])],
            !.children =
                [k \in 1..Len(svg[i].children) |-> AnonChild(svg[i], svg[i].children[k])] ] ]

\* The definitions of a document with a given tag, and the mask's rectangles.
DefsOf(doc, tag) == {doc.defs[k] : k \in {j \in 1..Len(doc.defs) : doc.defs[j].tag = tag}}
RectsOf(doc) == UNION { {m.rects[k] : k \in 1..Len(m.rects)} : m \in DefsOf(doc, "mask") }
FadeRects(doc, id) == {r \in RectsOf(doc) : r.fill = Url(id)}
OpaqueRects(doc) == {r \in RectsOf(doc) : r.fill = Keyword("white")}

\* Every element of a document that may carry presentation attributes.
ElementsOf(doc) == {GroupOf(doc)} \cup PathsOf(doc) \cup CirclesOf(doc)
Masked(el) == "mask" \in DOMAIN el /\ el.mask # NoAttr

\* The padding and the plotting area of the configuration in hand.
Pad == effectivePadding(Cfg)
PlotWidth == RSub(Cfg.width, RMul(Two, Pad))
PlotHeight == RSub(Cfg.height, RMul(Two, Pad))
\* The space the marker needs around its centre, and the padding before the
\* smooth-mode term, both read from the configuration.
MarkerReach == RAdd(RDiv(Cfg.knobSize, Two), RDiv(Cfg.strokeWidth, Two))
MarkerPadding == IF Cfg.showKnob THEN RMax(Cfg.padding, MarkerReach) ELSE Cfg.padding
Overshoot(plot) == RCeil(RMul(RMul(plot, Cfg.smoothTension), Rat(15, 100)))
\* The control points of the first and of the last segment of the curve, as
\* computed and as written (the document gives them rounded to 2 digits).
EndSegments == {0, Len(prices) - 2}
EndControlYs ==
    UNION { {Cp1(points(Samples, Cfg), i, Cfg.smoothTension).y,
             Cp2(points(Samples, Cfg), i, Cfg.smoothTension).y} : i \in EndSegments }
WrittenEndControlYs(doc) ==
    UNION { {ParseNumber(StrokePathOf(doc).d[i + 2].args[2]),
             ParseNumber(StrokePathOf(doc).d[i + 2].args[4])} : i \in EndSegments }
TensionInRange == RLt(Zero, Cfg.smoothTension) /\ RLe(Cfg.smoothTension, One)
\* How far a control point can leave the plotting area: chartHeight * tension / 3.
TangentReach == RDiv(RMul(PlotHeight, Cfg.smoothTension), Three)
\* Point k of the series, k from 0 as in the source, and the tangent term
\* (a - b) * tension / 3 of a control point.
P(k) == points(Samples, Cfg)[k + 1]
Max0(k) == IF k > 0 THEN k ELSE 0
MinLast(k) == IF k < Len(prices) - 1 THEN k ELSE Len(prices) - 1
Tangent(a, b) == RDiv(RMul(RSub(a, b), Cfg.smoothTension), Three)
Commands(d) == [k \in 1..Len(d) |-> d[k].cmd]
Tensions == {Rat(1, 10), Rat(1, 2), One}
\* The positions of the circles among the children of the root and of the group.
CirclePositions(doc) == {j \in 1..Len(doc.children) : doc.children[j].tag = "circle"}
GroupCircles(doc) ==
    {j \in 1..Len(GroupOf(doc).children) : GroupOf(doc).children[j].tag = "circle"}
Up == RLe(prices[1][2], prices[Len(prices)][2])
\* The gradient of the fill and the colours of its stops.
FillGradient(doc) == doc.defs[1]
StopColours(doc) ==
    {FillGradient(doc).stops[k].color : k \in 1..Len(FillGradient(doc).stops)}
\* The colours of the inputs that are 6 hex digits, with their components
\* worked out by hand; anything else is expected to give black.
Black == <<"0", ",", " ", "0", ",", " ", "0">>
DecimalRgb(colour) ==
    CASE colour = Blue -> <<"5", "9", ",", " ", "1", "3", "0", ",", " ", "2", "4", "6">>
      [] colour = Green -> <<"3", "4", ",", " ", "1", "9", "7", ",", " ", "9", "4">>
      [] colour = DefaultUpColor -> <<"0", ",", " ", "2", "0", "0", ",", " ", "8", "3">>
      [] colour = DefaultDownColor
           -> <<"2", "5", "5", ",", " ", "9", "0", ",", " ", "9", "0">>
      [] OTHER -> Black
SixHex == {Blue, Green, DefaultUpColor, DefaultDownColor}
\* The positions, in a sequence of elements, of those with a given tag.
Tagged(els, tag) == {j \in 1..Len(els) : els[j].tag = tag}
Count(b) == IF b THEN 1 ELSE 0
\* The identifiers a document defines, and every url(#id) reference in it with
\* the tag of definition it is meant for.
IdsOf(doc) == {doc.defs[k].id : k \in 1..Len(doc.defs)}
References(doc) ==
    {[id |-> p.fill.id, tag |-> "linearGradient"] :
        p \in {q \in PathsOf(doc) : q.fill.paint = "url"}}
    \cup {[id |-> g.mask.id, tag |-> "mask"] :
             g \in {h \in {GroupOf(doc)} : h.mask.paint = "url"}}
    \cup {[id |-> r.fill.id, tag |-> "linearGradient"] :
             r \in {q \in RectsOf(doc) : q.fill.paint = "url"}}
\* The span [from, to] a mask rectangle covers; a rectangle without x starts at 0.
RectFrom(r) == IF r.x = <<>> THEN Zero ELSE ParseNumber(r.x)
RectTo(r) == RAdd(RectFrom(r), ParseNumber(r.width))
\* The outer radius of the marker as drawn: r + stroke-width / 2.
OuterRadius(ci) == RAdd(ParseNumber(ci.r), RDiv(ParseNumber(ci.strokeWidth), Two))
Uneven == \E i \in 1..Len(prices) : prices[i][1] # Timestamp(i)

\* The right-hand side of the colour rule, read from the options as given.
GivenOr(o, dflt) == IF o = Undefined THEN dflt ELSE o.v
ExpectedStroke(up) ==
    IF options.customColor.kind = "value" /\ Len(options.customColor.v) > 0
    THEN options.customColor.v
    ELSE IF up THEN GivenOr(options.upColor, DefaultUpColor)
         ELSE GivenOr(options.downColor, DefaultDownColor)

---------------------------------------------------------------------------
(* C1.  A series of 0 or 1 samples yields exactly { svg: '', isUp: true }, *)
(* whatever the configuration; nothing of the document is built (no        *)
(* identifier is drawn from Math.random) and no error is raised.           *)

C1_ShortSeriesGivesSentinel ==
    Len(prices) < 2 =>
        /\ \A k \in 1..Len(page) : page[k] = [svg |-> <<>>, isUp |-> TRUE]
        /\ Len(random) = StreamLength

C1_Witness == Len(prices) = 1 /\ Len(page) >= 1 /\ Cfg.fill /\ Cfg.showKnob

(* C2.  For a series of 2 or more samples, isUp is true exactly when the   *)
(* last value is >= the first value (equal counts as up); the formula      *)
(* reads nothing but these two values.                                     *)

C2_IsUpIffLastGeFirst ==
    \A k \in 1..Len(page) :
        Len(prices) >= 2 =>
            (page[k].isUp <=> RLe(prices[1][2], prices[Len(prices)][2]))

C2_Witness ==
    /\ Len(prices) >= 3
    /\ prices[1][2] = prices[Len(prices)][2]
    /\ RLt(prices[2][2], prices[1][2])
    /\ Rendered
    /\ page[1].isUp

(* C3 as stated.  For a flat series of 2 or more samples every mapped      *)
(* point has y = effectivePadding + (height - 2*effectivePadding)/2, the   *)
(* vertical midpoint of the plotting area.                                 *)

C3_FlatSeriesAtMidpoint ==
    (Rendered /\ Len(prices) >= 2 /\ Flat) =>
        \A i \in 1..Len(prices) :
            points(Samples, Cfg)[i].y =
                RAdd(effectivePadding(Cfg), RDiv(chartHeight(Cfg), Two))

(* C3 amended.  For a flat series of 2 or more samples every mapped point  *)
(* has the same y, and that y is the bottom edge of the plotting area,     *)
(* height - effectivePadding; the line of the document is drawn there.     *)

C3_FlatSeriesAtBottom ==
    (Rendered /\ Len(prices) >= 2 /\ Flat) =>
        /\ \A i \in 1..Len(prices) :
            points(Samples, Cfg)[i].y = RSub(Cfg.height, effectivePadding(Cfg))
        /\ \A doc \in Docs :
            EndYs(StrokePathOf(doc).d)
                = {ToFixed2(RSub(Cfg.height, effectivePadding(Cfg)))}

C3_Witness ==
    Rendered /\ Len(prices) >= 3 /\ Flat /\ Cfg.smooth /\ Cfg.showKnob

(* C4.  Every coordinate written into the drawing instructions (line path, *)
(* control points, both bottom corners of the fill outline, marker centre) *)
(* has the form of toFixed(2): digits, a point, exactly two digits.        *)

C4_EveryCoordinateFixed2 ==
    \A doc \in Docs : \A t \in Coordinates(doc) : IsFixed2(t)


(* C5.  Two calls with the same samples and the same configuration,       *)
(* whatever Math.random yields in each, return the same isUp and documents *)
(* that are equal once their identifiers are taken out.                    *)

C5_SameInputSameGeometry ==
    \A i, j \in 1..Len(page) :
        /\ page[i].isUp = page[j].isUp
        /\ Anonymous(page[i].svg) = Anonymous(page[j].svg)

C5_Witness ==
    /\ Len(page) = 2
    /\ page[1].svg # <<>>
    /\ page[1].svg # page[2].svg
    /\ Cfg.fadeEdges

(* C6 as stated.  With showKnob true and everything else fixed (smooth on  *)
(* or off), a larger knobSize never gives a smaller effectivePadding.      *)

C6_LargerKnobNeverLessPadding ==
    (Docs # {} /\ Cfg.showKnob) =>
        \A b \in PaddingKnobSizes :
            RLe(Cfg.knobSize, b) =>
                RLe(effectivePadding(Cfg), effectivePadding([Cfg EXCEPT !.knobSize = b]))

(* C6 amended.  With showKnob true and everything else fixed, a larger     *)
(* knobSize never gives a smaller marker-adjusted base padding; with       *)
(* smooth off it never gives a smaller effectivePadding; with smooth on    *)
(* and tension in (0,1] effectivePadding can drop, by less than 1.         *)

C6_LargerKnobPaddingAmended ==
    (Docs # {} /\ Cfg.showKnob) =>
        \A b \in PaddingKnobSizes :
            RLe(Cfg.knobSize, b) =>
                LET larger == [Cfg EXCEPT !.knobSize = b]
                IN  /\ RLe(basePadding(Cfg), basePadding(larger))
                    /\ ~Cfg.smooth =>
                         RLe(effectivePadding(Cfg), effectivePadding(larger))
                    /\ Cfg.smooth =>
                         RLt(RSub(effectivePadding(Cfg), One), effectivePadding(larger))

C6_Witness ==
    /\ Docs # {}
    /\ Cfg.showKnob
    /\ ~Cfg.smooth
    /\ \E b \in PaddingKnobSizes :
          RLt(effectivePadding(Cfg), effectivePadding([Cfg EXCEPT !.knobSize = b]))

(* C7.  For every configuration, effectivePadding with smooth = true is    *)
(* >= effectivePadding with smooth = false and all else the same.          *)

C7_SmoothNeverLessPadding ==
    Docs # {} =>
        RGe(effectivePadding([Cfg EXCEPT !.smooth = TRUE]),
            effectivePadding([Cfg EXCEPT !.smooth = FALSE]))

(* C8.  With fadeEdges and showKnob the mask holds the left fade rectangle *)
(* and no right fade rectangle, and the opaque rectangle ends at the right *)
(* canvas edge (x + width = canvas width); with fadeEdges and no showKnob  *)
(* both fade rectangles are in the mask.                                   *)

C8_KnobSuppressesRightFade ==
    \A doc \in Docs :
        Cfg.fadeEdges =>
            LET leftId  == doc.defs[2].id
                rightId == doc.defs[3].id
            IN  /\ Cardinality(FadeRects(doc, leftId)) = 1
                /\ Cardinality(OpaqueRects(doc)) = 1
                /\ Cfg.showKnob =>
                     /\ FadeRects(doc, rightId) = {}
                     /\ \A r \in OpaqueRects(doc) :
                          RAdd(ParseNumber(r.x), ParseNumber(r.width))
                              = ParseNumber(doc.width)
                /\ ~Cfg.showKnob => Cardinality(FadeRects(doc, rightId)) = 1

C8_Witness ==
    /\ Docs # {}
    /\ Cfg.fadeEdges
    /\ Cfg.showKnob
    /\ Cfg.fadeAmount = Rat(15, 2)
    /\ Cfg.width = Int2R(250)

(* C9.  In every document the mask attribute is on the group of the fill   *)
(* and stroke paths and on nothing else, the group holds only paths, and   *)
(* the marker circle, when there is one, follows the group outside it.     *)

C9_MarkerOutsideMaskedGroup ==
    \A doc \in Docs :
        /\ GroupOf(doc).tag = "g"
        /\ \A el \in ElementsOf(doc) : Masked(el) => el = GroupOf(doc)
        /\ Cfg.fadeEdges => Masked(GroupOf(doc))
        /\ \A p \in PathsOf(doc) : p.tag = "path"
        /\ Cfg.showKnob =>
             /\ Len(doc.children) = 2
             /\ doc.children[2].tag = "circle"
        /\ ~Cfg.showKnob => Len(doc.children) = 1

C9_Witness ==
    Docs # {} /\ Cfg.fadeEdges /\ Cfg.showKnob /\ Cfg.fill

(* C10.  The colour of the line, of the marker outline and of the gradient *)
(* is customColor when that is given and not empty; otherwise upColor when *)
(* isUp and downColor when not, each with its default when left out.       *)

C10_StrokeColourRule ==
    \A k \in 1..Len(page) :
        page[k].svg # <<>> =>
            LET doc  == page[k].svg[1]
                want == ExpectedStroke(page[k].isUp)
            IN  /\ StrokePathOf(doc).stroke = Color(want)
                /\ \A ci \in CirclesOf(doc) : ci.stroke = Color(want)
                /\ \A st \in {doc.defs[1].stops[n] : n \in 1..2} :
                     st.color = rgbStr(want)

C10_Witness ==
    /\ Docs # {}
    /\ options.customColor = Val(<<>>)
    /\ options.downColor = Val(Named)
    /\ ~page[1].isUp
    /\ Cfg.showKnob


(* C11.  For 2 or more samples the i-th point (i from 0) has               *)
(* x = effectivePadding + i/(N-1) * (width - 2*effectivePadding): the      *)
(* first lies at effectivePadding, the last at width - effectivePadding,   *)
(* neighbours are equally spaced, and x is a function of the index alone,  *)
(* whatever the timestamps and the values.                                 *)

C11_XFromIndexOnly ==
    (Rendered /\ Len(prices) >= 2) =>
        LET pts == points(Samples, Cfg)
            N   == Len(prices)
            X(i) == RAdd(Pad, RMul(RDiv(Int2R(i), Int2R(N - 1)), PlotWidth))
        IN  /\ \A i \in 0..(N - 1) : pts[i + 1].x = X(i)
            /\ pts[1].x = Pad
            /\ pts[N].x = RSub(Cfg.width, Pad)
            /\ \A i \in 1..(N - 2) :
                   RSub(pts[i + 1].x, pts[i].x) = RSub(pts[i + 2].x, pts[i + 1].x)
            /\ \A doc \in Docs : \A i \in 0..(N - 1) :
                   EndX(StrokePathOf(doc).d[i + 1]) = ToFixed2(X(i))

C11_Witness ==
    /\ Rendered /\ Len(prices) = MaxLen /\ Uneven /\ ~Flat
    /\ Cfg.smooth /\ Cfg.showKnob
    /\ RLt(Zero, PlotWidth)

(* C12.  For a series that is not flat and a plotting area of positive     *)
(* height, a strictly larger value gets a strictly smaller y; the maximum  *)
(* is drawn at y = effectivePadding and the minimum at                     *)
(* y = height - effectivePadding.                                          *)

C12_LargerValueHigher ==
    (Rendered /\ Len(prices) >= 2 /\ ~Flat /\ RLt(Zero, PlotHeight)) =>
        LET pts == points(Samples, Cfg)
            N   == Len(prices)
        IN  /\ \A i, j \in 1..N :
                   RLt(Samples[j], Samples[i]) => RLt(pts[i].y, pts[j].y)
            /\ \A i \in 1..N :
                   /\ Samples[i] = SeqMax(Samples) => pts[i].y = Pad
                   /\ Samples[i] = SeqMin(Samples)
                        => pts[i].y = RSub(Cfg.height, Pad)
            /\ \A doc \in Docs : \A i \in 1..N :
                   /\ Samples[i] = SeqMax(Samples)
                        => EndY(StrokePathOf(doc).d[i]) = ToFixed2(Pad)
                   /\ Samples[i] = SeqMin(Samples)
                        => EndY(StrokePathOf(doc).d[i])
                             = ToFixed2(RSub(Cfg.height, Pad))

C12_Witness ==
    /\ Rendered /\ Len(prices) >= 3 /\ RLt(Zero, PlotHeight)
    /\ {Samples[i] : i \in 1..Len(prices)} = PriceValues
    /\ Cfg.smooth


(* C13 as stated.  Whenever showKnob is true, effectivePadding is at least *)
(* knobSize/2 + strokeWidth/2, for every padding, knobSize, strokeWidth,   *)
(* smooth, tension and canvas height; whenever showKnob and smooth are     *)
(* both false, effectivePadding is the configured padding unchanged.       *)

C13_PaddingCoversMarker ==
    Rendered =>
        /\ Cfg.showKnob => RGe(Pad, MarkerReach)
        /\ (~Cfg.showKnob /\ ~Cfg.smooth) => Pad = Cfg.padding

(* C14.  With smooth set, effectivePadding = basePadding + extra, where    *)
(* basePadding is the padding after the marker adjustment and extra is     *)
(* the ceiling of (height - 2*basePadding) * tension * 0.15: the plot      *)
(* height after the marker adjustment, not the one of the raw padding.     *)
(* With smooth unset, extra is 0.                                          *)

C14_SmoothExtraFromAdjustedHeight ==
    Rendered =>
        LET base  == MarkerPadding
            extra == IF Cfg.smooth
                     THEN Overshoot(RSub(Cfg.height, RMul(Two, base)))
                     ELSE Zero
        IN  /\ Pad = RAdd(base, extra)
            /\ \A doc \in Docs :
                   EndX(StrokePathOf(doc).d[1]) = ToFixed2(RAdd(base, extra))

C14_Witness ==
    /\ Rendered /\ Cfg.smooth /\ Cfg.showKnob
    /\ MarkerPadding # Cfg.padding
    /\ Overshoot(RSub(Cfg.height, RMul(Two, MarkerPadding)))
         # Overshoot(RSub(Cfg.height, RMul(Two, Cfg.padding)))
    /\ RLt(Zero, RSub(Pad, MarkerPadding))


(* C15.  One effectivePadding insets both axes: for 2 or more samples and  *)
(* width, height >= 2*effectivePadding, every point has                    *)
(* effectivePadding <= x <= width - effectivePadding and                   *)
(* effectivePadding <= y <= height - effectivePadding; there are as many   *)
(* points as samples, in the order of the samples.                         *)

C15_PointsInsidePlotArea ==
    (/\ Rendered /\ Len(prices) >= 2
     /\ RLe(RMul(Two, Pad), Cfg.width) /\ RLe(RMul(Two, Pad), Cfg.height)) =>
        LET pts == points(Samples, Cfg)
            N   == Len(prices)
            Y(i) == RSub(RAdd(Pad, PlotHeight),
                         RMul(RDiv(RSub(prices[i][2], SeqMin(Samples)),
                                   range(Samples)), PlotHeight))
        IN  /\ Len(pts) = N
            /\ \A i \in 1..N :
                   /\ RLe(Pad, pts[i].x) /\ RLe(pts[i].x, RSub(Cfg.width, Pad))
                   /\ RLe(Pad, pts[i].y) /\ RLe(pts[i].y, RSub(Cfg.height, Pad))
                   /\ pts[i].y = Y(i)
                   /\ i < N => RLe(pts[i].x, pts[i + 1].x)
            /\ \A doc \in Docs :
                   /\ Len(StrokePathOf(doc).d) = N
                   /\ \A i \in 1..N :
                          /\ EndX(StrokePathOf(doc).d[i]) = ToFixed2(pts[i].x)
                          /\ EndY(StrokePathOf(doc).d[i]) = ToFixed2(Y(i))

C15_Witness ==
    /\ Rendered /\ Len(prices) = MaxLen /\ ~Flat
    /\ RLe(RMul(Two, Pad), Cfg.width) /\ RLe(RMul(Two, Pad), Cfg.height)
    /\ Cfg.smooth /\ Cfg.showKnob
    /\ prices[1][2] # prices[Len(prices)][2]


(* C16 as stated.  In smooth mode with tension in (0, 1] and the default   *)
(* padding, the added padding is large enough that every control point of  *)
(* the first and of the last segment stays vertically inside the canvas,   *)
(* 0 <= y <= height, for every series of 3 or more samples.                *)

C16_EndControlPointsInsideCanvas ==
    (/\ Rendered /\ Len(prices) >= 3 /\ Cfg.smooth /\ TensionInRange
     /\ options.padding = Undefined) =>
        /\ \A y \in EndControlYs : RLe(Zero, y) /\ RLe(y, Cfg.height)
        /\ \A doc \in Docs : \A y \in WrittenEndControlYs(doc) :
               RLe(Zero, y) /\ RLe(y, Cfg.height)

(* C16 amended.  In smooth mode with tension in (0, 1], the default        *)
(* padding and a plotting area of non-negative height, every control point *)
(* of the first and of the last segment of a series of 3 or more samples   *)
(* leaves the plotting area vertically by at most                          *)
(* (height - 2*effectivePadding) * tension / 3; it is inside the canvas    *)
(* whenever that reach is at most effectivePadding.                        *)

C16_EndControlPointsWithinReach ==
    (/\ Rendered /\ Len(prices) >= 3 /\ Cfg.smooth /\ TensionInRange
     /\ options.padding = Undefined /\ RLe(Zero, PlotHeight)) =>
        /\ \A y \in EndControlYs :
               /\ RLe(RSub(Pad, TangentReach), y)
               /\ RLe(y, RAdd(RSub(Cfg.height, Pad), TangentReach))
               /\ RLe(TangentReach, Pad) => (RLe(Zero, y) /\ RLe(y, Cfg.height))
        /\ \A doc \in Docs : \A y \in WrittenEndControlYs(doc) :
               RLe(TangentReach, Pad) => (RLe(Zero, y) /\ RLe(y, Cfg.height))

C16_Witness ==
    /\ Rendered /\ Len(prices) >= 3 /\ Cfg.smooth /\ TensionInRange
    /\ options.padding = Undefined /\ RLe(Zero, PlotHeight)
    /\ RLt(Pad, TangentReach)
    /\ \E y \in EndControlYs : y = RSub(Pad, TangentReach) /\ RLt(y, Zero)


(* C17.  With smooth unset, the line path of N points is one move-to at    *)
(* point 0 followed by N-1 line-to at points 1..N-1 in order: N            *)
(* instructions, each point once.                                          *)

C17_LinearPathVisitsEachPoint ==
    (Rendered /\ Len(prices) >= 2 /\ ~Cfg.smooth) =>
        \A doc \in Docs :
            LET d == StrokePathOf(doc).d
                N == Len(prices)
            IN  /\ Len(d) = N
                /\ d[1].cmd = "M"
                /\ \A i \in 2..N : d[i].cmd = "L"
                /\ \A i \in 1..N :
                       d[i].args = <<ToFixed2(P(i - 1).x), ToFixed2(P(i - 1).y)>>

C17_Witness ==
    /\ Rendered /\ Len(prices) = MaxLen /\ ~Cfg.smooth /\ ~Flat
    /\ prices[1][2] # prices[2][2]

(* C18.  With smooth set and N >= 3 points, the path is a move-to at point *)
(* 0 followed by exactly N-1 cubic segments; segment i (from 0) ends at    *)
(* point i+1, with first control point                                     *)
(* p[i] + (p[i+1] - p[max(0, i-1)]) * tension/3 and second control point   *)
(* p[i+1] - (p[min(N-1, i+2)] - p[i]) * tension/3; no index outside        *)
(* 0..N-1 is read.                                                         *)

C18_SmoothPathSegments ==
    (Rendered /\ Len(prices) >= 3 /\ Cfg.smooth) =>
        \A doc \in Docs :
            LET d == StrokePathOf(doc).d
                N == Len(prices)
            IN  /\ Len(d) = N
                /\ d[1] = [cmd |-> "M", args |-> <<ToFixed2(P(0).x), ToFixed2(P(0).y)>>]
                /\ \A i \in 0..(N - 2) :
                       /\ {Max0(i - 1), MinLast(i + 2)} \subseteq 0..(N - 1)
                       /\ d[i + 2].cmd = "C"
                       /\ d[i + 2].args =
                            << ToFixed2(RAdd(P(i).x, Tangent(P(i + 1).x, P(Max0(i - 1)).x))),
                               ToFixed2(RAdd(P(i).y, Tangent(P(i + 1).y, P(Max0(i - 1)).y))),
                               ToFixed2(RSub(P(i + 1).x,
                                             Tangent(P(MinLast(i + 2)).x, P(i).x))),
                               ToFixed2(RSub(P(i + 1).y,
                                             Tangent(P(MinLast(i + 2)).y, P(i).y))),
                               ToFixed2(P(i + 1).x),
                               ToFixed2(P(i + 1).y) >>

C18_Witness ==
    /\ Rendered /\ Len(prices) = MaxLen /\ Cfg.smooth
    /\ Cfg.smoothTension = One
    /\ prices[1][2] # prices[2][2] /\ prices[2][2] # prices[3][2]
    /\ prices[3][2] # prices[MaxLen][2]

(* C19.  For exactly 2 points the smooth builder emits no cubic segment    *)
(* and returns the instructions of the linear builder on the same points,  *)
(* one move-to and one line-to, for every tension.                         *)

C19_TwoPointsSmoothIsLinear ==
    (Rendered /\ Len(prices) = 2) =>
        LET pts == points(Samples, Cfg)
            two == << [cmd |-> "M", args |-> <<ToFixed2(P(0).x), ToFixed2(P(0).y)>>],
                      [cmd |-> "L", args |-> <<ToFixed2(P(1).x), ToFixed2(P(1).y)>>] >>
        IN  /\ \A t \in Tensions \cup {Cfg.smoothTension} :
                   /\ catmullRomToBezier(pts, t) = two
                   /\ catmullRomToBezier(pts, t) = straightPath(pts)
            /\ \A doc \in Docs : Cfg.smooth => StrokePathOf(doc).d = two

C19_Witness ==
    /\ Rendered /\ Len(prices) = 2 /\ Cfg.smooth /\ ~Flat
    /\ Cfg.smoothTension = One

(* C20.  With fill set, the fill outline is the line path followed by a    *)
(* line-to (last x, height - effectivePadding), a line-to                  *)
(* (first x, height - effectivePadding) and a close; it is the path of the *)
(* filled element only, never stroked.  With fill unset the document has   *)
(* no fill path element and no closed outline.                             *)

C20_FillOutline ==
    (Rendered /\ Len(prices) >= 2) =>
        \A doc \in Docs :
            LET paths  == GroupOf(doc).children
                stroke == StrokePathOf(doc)
                N      == Len(prices)
                n      == Len(stroke.d)
                bottom == RSub(Cfg.height, Pad)
            IN  IF Cfg.fill
                THEN /\ Len(paths) = 2
                     /\ Len(paths[1].d) = n + 3
                     /\ SubSeq(paths[1].d, 1, n) = stroke.d
                     /\ Commands(SubSeq(paths[1].d, n + 1, n + 3)) = <<"L", "L", "Z">>
                     /\ paths[1].d[n + 1].args[1] = ToFixed2(P(N - 1).x)
                     /\ ParseNumber(paths[1].d[n + 1].args[2]) = bottom
                     /\ paths[1].d[n + 2].args[1] = ToFixed2(P(0).x)
                     /\ ParseNumber(paths[1].d[n + 2].args[2]) = bottom
                     /\ paths[1].d[n + 3].args = <<>>
                     /\ paths[1].fill.paint = "url" /\ paths[1].stroke = NoAttr
                     /\ stroke.fill = Keyword("none") /\ stroke.stroke # NoAttr
                     /\ \A k \in 1..n : stroke.d[k].cmd # "Z"
                ELSE /\ Len(paths) = 1
                     /\ paths[1].fill = Keyword("none")
                     /\ \A k \in 1..n : stroke.d[k].cmd # "Z"

C20_Witness ==
    /\ Rendered /\ Len(prices) >= 3 /\ Cfg.fill /\ Cfg.smooth /\ Cfg.showKnob
    /\ Pad # Cfg.padding


(* C21.  The terminal marker is emitted if and only if showKnob is true;   *)
(* when emitted it is a single circle whose centre is the last mapped      *)
(* point, whose radius is knobSize/2, whose stroke is the resolved stroke  *)
(* colour and whose fill is backgroundColor.                               *)

C21_MarkerIffShowKnob ==
    (Rendered /\ Len(prices) >= 2) =>
        \A doc \in Docs :
            /\ GroupCircles(doc) = {}
            /\ IF Cfg.showKnob
               THEN /\ Cardinality(CirclePositions(doc)) = 1
                    /\ \A j \in CirclePositions(doc) :
                          LET ci == doc.children[j]
                          IN  /\ ci.cx = ToFixed2(P(Len(prices) - 1).x)
                              /\ ci.cy = ToFixed2(P(Len(prices) - 1).y)
                              /\ ParseNumber(ci.r) = RDiv(Cfg.knobSize, Two)
                              /\ ci.stroke = Color(ExpectedStroke(Up))
                              /\ ci.fill = Color(GivenOr(options.backgroundColor,
                                                          DefaultBackgroundColor))
               ELSE CirclePositions(doc) = {}

C21_Witness ==
    /\ Rendered /\ Len(prices) >= 3 /\ Cfg.showKnob /\ Cfg.smooth
    /\ options.knobSize = Val(Int2R(7))
    /\ options.backgroundColor = Val(White)
    /\ options.customColor = Val(Blue)


(* C22.  When the resolved stroke colour is not a 6-hex-digit colour (a    *)
(* 3-digit hex, a colour name, any other text), the render still yields a  *)
(* full document and the stops of the gradient are rgb(0, 0, 0); when it   *)
(* is one, the stops carry the decimal r, g, b of that hex value.          *)

C22_GradientColourFallback ==
    (Rendered /\ Len(prices) >= 2) =>
        /\ \A k \in 1..Len(page) : page[k].svg # <<>>
        /\ \A doc \in Docs :
               /\ FillGradient(doc).tag = "linearGradient"
               /\ Len(FillGradient(doc).stops) = 2
               /\ StopColours(doc) = {DecimalRgb(ExpectedStroke(Up))}
               /\ ExpectedStroke(Up) \notin SixHex => StopColours(doc) = {Black}
               /\ StrokePathOf(doc).stroke = Color(ExpectedStroke(Up))
               /\ Len(StrokePathOf(doc).d) = Len(prices)

C22_Witness ==
    /\ Rendered /\ Len(prices) >= 2
    /\ ExpectedStroke(Up) \in {ShortHex, Named}
    /\ Cfg.fill /\ Cfg.showKnob


(* C23.  For every series of 2 or more samples (flat series and equal up   *)
(* and down colours included) and every configuration, the result is one   *)
(* fully formed document: one root, one gradient definition, the fade-mask *)
(* definitions if and only if fadeEdges, one group holding the fill path   *)
(* if and only if fill and exactly one stroke path, and the marker if and  *)
(* only if showKnob.                                                       *)

C23_DocumentFullyFormed ==
    (Rendered /\ Len(prices) >= 2) =>
        \A k \in 1..Len(page) :
            /\ Len(page[k].svg) = 1
            /\ LET doc   == page[k].svg[1]
                   paths == GroupOf(doc).children
               IN  /\ doc.tag = "svg"
                   /\ Cardinality(Tagged(doc.defs, "linearGradient"))
                        = 1 + 2 * Count(Cfg.fadeEdges)
                   /\ Cardinality(Tagged(doc.defs, "mask")) = Count(Cfg.fadeEdges)
                   /\ Len(doc.defs) = 1 + 3 * Count(Cfg.fadeEdges)
                   /\ Len(FillGradient(doc).stops) = 2
                   /\ Cardinality(Tagged(doc.children, "g")) = 1
                   /\ Cardinality(Tagged(doc.children, "circle")) = Count(Cfg.showKnob)
                   /\ Len(doc.children) = 1 + Count(Cfg.showKnob)
                   /\ Tagged(paths, "path") = 1..Len(paths)
                   /\ Cardinality({j \in 1..Len(paths) : paths[j].fill.paint = "url"})
                        = Count(Cfg.fill)
                   /\ Cardinality({j \in 1..Len(paths) : paths[j].stroke # NoAttr}) = 1
                   /\ Len(paths) = 1 + Count(Cfg.fill)
                   /\ \A j \in 1..Len(paths) : Len(paths[j].d) >= Len(prices)

C23_Witness ==
    /\ Rendered /\ Flat /\ Len(prices) >= 3
    /\ Cfg.upColor = Cfg.downColor
    /\ Cfg.fadeEdges /\ Cfg.fill /\ Cfg.showKnob /\ Cfg.smooth


(* C24 as stated.  The identifiers generated by one render are unique per  *)
(* render: for any sequence of renders whose documents are embedded in the *)
(* same page, no identifier of one document equals an identifier of        *)
(* another.                                                                *)

C24_IdsUniqueAcrossRenders ==
    \A i, j \in 1..Len(page) :
        (i # j /\ page[i].svg # <<>> /\ page[j].svg # <<>>) =>
            IdsOf(page[i].svg[1]) \cap IdsOf(page[j].svg[1]) = {}

(* C27.  Within one document, whatever text Math.random yields (the empty  *)
(* text included), the identifiers of the gradient, the mask and the two   *)
(* fade gradients are pairwise distinct, and every url(#id) reference      *)
(* (fill path to gradient, group to mask, mask rectangles to fade          *)
(* gradients) names an identifier defined in the same document.            *)

C27_IdsDistinctAndResolved ==
    \A doc \in Docs :
        /\ \A i, j \in 1..Len(doc.defs) : i # j => doc.defs[i].id # doc.defs[j].id
        /\ \A ref \in References(doc) :
               /\ Cardinality(Targets(doc, ref.id)) = 1
               /\ \A k \in Targets(doc, ref.id) : doc.defs[k].tag = ref.tag
        /\ Cfg.fill => \E ref \in References(doc) : ref.id = FillGradient(doc).id
        /\ Cfg.fadeEdges =>
               /\ Cardinality({ref \in References(doc) : ref.tag = "mask"}) = 1
               /\ Cardinality(UNION {Targets(doc, ref.id) : ref \in References(doc)})
                    = 2 + Count(~Cfg.showKnob) + Count(Cfg.fill)

C27_Witness ==
    /\ Len(page) >= 1 /\ page[1].svg # <<>>
    /\ Cfg.fadeEdges /\ Cfg.fill /\ ~Cfg.showKnob
    /\ IdsOf(page[1].svg[1]) =
         {"gradient-", "fade-mask-", "fade-left-", "fade-right-"}


(* C25 as stated.  With fadeEdges set, the rectangles of the mask          *)
(* partition the canvas width for every fadeAmount from 0 to 100: the left *)
(* fade covers [0, width*fadeAmount/100], the right fade (when applied)    *)
(* covers [width*(1 - fadeAmount/100), width], the opaque rectangle lies   *)
(* exactly between them with non-negative width, and no two rectangles     *)
(* overlap.                                                                *)

C25_MaskRectsPartition ==
    \A doc \in Docs :
        Cfg.fadeEdges =>
            LET f      == RMul(Cfg.width, RDiv(Cfg.fadeAmount, Hundred))
                left   == FadeRects(doc, doc.defs[2].id)
                right  == FadeRects(doc, doc.defs[3].id)
                middle == OpaqueRects(doc)
            IN  /\ Cardinality(left) = 1 /\ Cardinality(middle) = 1
                /\ \A r \in left : RectFrom(r) = Zero /\ RectTo(r) = f
                /\ \A r \in right :
                       RectFrom(r) = RSub(Cfg.width, f) /\ RectTo(r) = Cfg.width
                /\ \A m \in middle :
                       /\ RLe(Zero, ParseNumber(m.width))
                       /\ \A r \in left : RectFrom(m) = RectTo(r)
                       /\ \A r \in right : RectTo(m) = RectFrom(r)
                       /\ right = {} => RectTo(m) = Cfg.width
                /\ \A a \in left : \A b \in right : RLe(RectTo(a), RectFrom(b))

(* C26.  With showKnob set and width, height >= 2*effectivePadding, the    *)
(* marker circle with its stroke (centre the last point, outer radius      *)
(* knobSize/2 + strokeWidth/2) lies inside the canvas                      *)
(* [0, width] x [0, height], for every series, smooth on or off.           *)

C26_MarkerInsideCanvas ==
    (/\ Rendered /\ Len(prices) >= 2 /\ Cfg.showKnob
     /\ RLe(RMul(Two, Pad), Cfg.width) /\ RLe(RMul(Two, Pad), Cfg.height)) =>
        /\ LET last == P(Len(prices) - 1)
           IN  /\ RLe(Zero, RSub(last.x, MarkerReach))
               /\ RLe(RAdd(last.x, MarkerReach), Cfg.width)
               /\ RLe(Zero, RSub(last.y, MarkerReach))
               /\ RLe(RAdd(last.y, MarkerReach), Cfg.height)
        /\ \A doc \in Docs : \A j \in CirclePositions(doc) :
               LET ci == doc.children[j]
               IN  /\ OuterRadius(ci) = MarkerReach
                   /\ RLe(Zero, RSub(ParseNumber(ci.cx), OuterRadius(ci)))
                   /\ RLe(RAdd(ParseNumber(ci.cx), OuterRadius(ci)), Cfg.width)
                   /\ RLe(Zero, RSub(ParseNumber(ci.cy), OuterRadius(ci)))
                   /\ RLe(RAdd(ParseNumber(ci.cy), OuterRadius(ci)), Cfg.height)

C26_Witness ==
    /\ Rendered /\ Len(prices) >= 2 /\ Cfg.showKnob /\ Cfg.smooth
    /\ RLe(RMul(Two, Pad), Cfg.width) /\ RLe(RMul(Two, Pad), Cfg.height)
    /\ RLt(Cfg.padding, MarkerReach)
    /\ P(Len(prices) - 1).y = MarkerReach
    /\ Pad = MarkerReach

===========================================================================
